---- MODULE Spec2Model ----
(***************************************************************************)
(* Model of jyotishyam/chart_calc/mod_lagna.py: the lagna (D1) chart       *)
(* pipeline compute_lagna_Chart, its two stages update_ascendant and       *)
(* update_planetaryData, the ephemeris adapter functions                   *)
(* sidereal_longitude / Is_Retrograde with the global sidereal mode they   *)
(* toggle, and the pure helpers nakshatra_pada, ketu, norm360, to_dms.     *)
(*                                                                         *)
(* Numbers.  The source computes on Python floats (IEEE 754 binary64:      *)
(* every operation yields the exact result rounded to the nearest value    *)
(* with a 53-bit significand, ties to even).  The model keeps that         *)
(* arithmetic and shortens the significand to MantBits bits: a float is a  *)
(* pair <<m, e>> standing for m * 2^e with |m| < 2^MantBits, and fdiv,     *)
(* fmul, fadd round exactly as IEEE 754 does.  MantBits is odd like 53,    *)
(* so that 360/27 and 360/108, whose binary expansion has period 2, round  *)
(* in the same direction as in binary64.                                   *)
(*                                                                         *)
(* A longitude kept in the state is the integer longitude * Scale, where   *)
(* 1/Scale degree is the spacing of the floats of [128, 256); below 256    *)
(* degrees every such integer is a float, from 256 on the even ones are.   *)
(* Signs, rashis and nakshatras are represented by their index in the      *)
(* name tables (gen.signs, gen.rashis, get_nakshatra_name).                *)
(***************************************************************************)
EXTENDS Integers, Sequences, FiniteSets, TLC

\* ------------------------------------------------------------- bounds
\* Bits of the significand of a float (53 in the source's binary64).
MantBits == 13
\* How many times compute_lagna_Chart is called on the same chart template.
MaxRuns == 2
\* How many adapter operations each concurrent caller performs.
MaxCalls == 2

\* Grid units per degree: the floats of [128, 256) are 2^(8 - MantBits) apart.
FracBits == MantBits - 8
Scale == 2 ^ FracBits
Circle == 360 * Scale
HalfCircle == 180 * Scale
SignWidth == 30 * Scale

\* ------------------------------------------------------------- constants
PARTIAL == "PARTIAL"
COMPUTED == "COMPUTED"
\* The status a chart template carries before any computation touched it.
UNSET == "UNSET"
\* A field of the template that has not been assigned yet.
NoValue == 0 - 1
\* What indexing get_nakshatra_name outside the list yields (Python raises IndexError).
IndexError == 0 - 2

EXHALTED == "EXHALTED"
DEBILITATED == "DEBILITATED"
OWNSIGN == "OWNSIGN"
FRIENDSIGN == "FRIENDSIGN"
ENEMYSIGN == "ENEMYSIGN"
NEUTRALSIGN == "NEUTRALSIGN"
UNKNOWN == "UNKNOWN"

SIDM_LAHIRI == "SIDM_LAHIRI"
SIDM_FAGAN_BRADLEY == "SIDM_FAGAN_BRADLEY"

\* swe body numbers; swe.KETU is an alias of swe.PLUTO.
planet_list ==
  <<"SUN", "MOON", "MARS", "MERCURY", "JUPITER", "VENUS", "SATURN", "MEAN_NODE", "KETU">>

get_planet_name(planet) ==
  CASE planet = "SUN" -> "Sun"
    [] planet = "MOON" -> "Moon"
    [] planet = "MARS" -> "Mars"
    [] planet = "MERCURY" -> "Mercury"
    [] planet = "JUPITER" -> "Jupiter"
    [] planet = "VENUS" -> "Venus"
    [] planet = "SATURN" -> "Saturn"
    [] planet = "MEAN_NODE" -> "Rahu"
    [] planet = "KETU" -> "Ketu"

PlanetNames == { get_planet_name(planet_list[i]) : i \in 1..Len(planet_list) }

\* ------------------------------------------------------------- float arithmetic
\* The float nearest to (n / d) * 2^e, ties to even, for integers n >= 0 and d > 0.
RECURSIVE fround(_, _, _)
fround(n, d, e) ==
  IF n = 0 THEN <<0, 0>>
  ELSE IF n < d * 2 ^ (MantBits - 1) THEN fround(2 * n, d, e - 1)
  ELSE IF n >= d * 2 ^ MantBits THEN fround(n, 2 * d, e + 1)
  ELSE LET q == n \div d
           r == n % d
           m == IF 2 * r > d \/ (2 * r = d /\ q % 2 = 1) THEN q + 1 ELSE q
       IN IF m = 2 ^ MantBits THEN <<2 ^ (MantBits - 1), e + 1>> ELSE <<m, e>>

\* The same for an integer n of either sign.
FRound(n, d, e) ==
  IF n >= 0 THEN fround(n, d, e)
  ELSE LET x == fround(-n, d, e) IN <<-x[1], x[2]>>

\* float(k) of a small integer k.
Float(k) == FRound(k, 1, 0)

\* a / b, a * b, a + b, a - b on floats (b > 0 in a / b).
fdiv(a, b) == FRound(a[1], b[1], a[2] - b[2])
fmul(a, b) == FRound(a[1] * b[1], 1, a[2] + b[2])
fadd(a, b) ==
  LET e == IF a[2] < b[2] THEN a[2] ELSE b[2]
  IN FRound(a[1] * 2 ^ (a[2] - e) + b[1] * 2 ^ (b[2] - e), 1, e)
fsub(a, b) == fadd(a, <<-b[1], b[2]>>)

\* Python int() of a float: truncation toward zero.
ftrunc(a) ==
  IF a[2] >= 0 THEN a[1] * 2 ^ a[2]
  ELSE IF a[1] >= 0 THEN a[1] \div 2 ^ (-a[2])
  ELSE -((-a[1]) \div 2 ^ (-a[2]))

\* Whether the longitude l / Scale is a float.
Representable(l) == l < 2 ^ MantBits \/ l % 2 = 0

\* A longitude of the grid as a float, and a float that lies on the grid as a
\* longitude of the grid.
FromGrid(l) == FRound(l, 1, -FracBits)
ToGrid(a) ==
  IF a[2] + FracBits >= 0 THEN a[1] * 2 ^ (a[2] + FracBits)
  ELSE a[1] \div 2 ^ (-(a[2] + FracBits))

\* ------------------------------------------------------------- pure helpers
\* int() of the exact quotient num/den (den > 0).  to_dms only divides and multiplies
\* values that are multiples of 1/Scale degree by 60, which binary floats do exactly.
int(num, den) == IF num >= 0 THEN num \div den ELSE -((-num) \div den)

norm180(angle) == IF angle >= HalfCircle THEN angle - Circle ELSE angle

\* angle % 360: the float remainder is exact.
norm360(angle) == angle % Circle

\* (rahu + 180) % 360: the sum is rounded to a float, the remainder is exact.
ketu(rahu) == ToGrid(fadd(FromGrid(rahu), Float(180))) % Circle

\* int(longitude / 30)
SignIndex(longitude) == ftrunc(fdiv(FromGrid(longitude), Float(30)))

\* to_dms_prec / to_dms of an angle given in grid units: [d, m, int(s)].
to_dms(deg) ==
  LET d == int(deg, Scale)
      mins == (deg - d * Scale) * 60
      m == int(mins, Scale)
      s == int((mins - m * Scale) * 60, Scale)
  IN <<d, m, s>>

\* get_nakshatra_name[quotient]: a Python list of 27 names indexed by quotient;
\* a negative index counts from the end, anything else outside raises IndexError.
get_nakshatra_name(quotient) ==
  IF quotient \in 0..26 THEN quotient
  ELSE IF quotient \in (-27)..(-1) THEN quotient + 27
  ELSE IndexError

nakshatra_pada(longitude) ==
  LET one_star == fdiv(Float(360), Float(27))
      one_pada == fdiv(Float(360), Float(108))
      quotient == ftrunc(fdiv(FromGrid(longitude), one_star))
      reminder == fsub(FromGrid(longitude), fmul(Float(quotient), one_star))
      pada == ftrunc(fdiv(reminder, one_pada))
  IN <<get_nakshatra_name(quotient), 1 + pada>>

\* Variant: the friend rule tested before the exaltation rule.
HouseRel_friend_first(name, currentsign, dispositor, exhaltsign, debilitsign, friends, enemies, neutral) ==
  IF dispositor \in friends THEN FRIENDSIGN
  ELSE IF currentsign = exhaltsign THEN EXHALTED
  ELSE IF currentsign = debilitsign THEN DEBILITATED
  ELSE IF name = dispositor THEN OWNSIGN
  ELSE IF dispositor \in enemies THEN ENEMYSIGN
  ELSE IF dispositor \in neutral THEN NEUTRALSIGN
  ELSE UNKNOWN
\* The dignity decision list of update_planetaryData (lines 236-249).
HouseRel(name, currentsign, dispositor, exhaltsign, debilitsign, friends, enemies, neutral) ==
  IF currentsign = exhaltsign THEN EXHALTED
  ELSE IF currentsign = debilitsign THEN DEBILITATED
  ELSE IF name = dispositor THEN OWNSIGN
  ELSE IF dispositor \in friends THEN FRIENDSIGN
  ELSE IF dispositor \in enemies THEN ENEMYSIGN
  ELSE IF dispositor \in neutral THEN NEUTRALSIGN
  ELSE UNKNOWN

\* ------------------------------------------------------------- reference tables
\* generic.mod_general: the lord of each sign, 0 = Mesha .. 11 = Meena.
ClassicalSignLords ==
  [s \in 0..11 |->
     <<"Mars", "Venus", "Mercury", "Moon", "Sun", "Mercury",
       "Venus", "Mars", "Jupiter", "Saturn", "Saturn", "Jupiter">>[s + 1]]

\* A sign-lord table with the entry of Mesha left empty (incomplete reference data).
IncompleteSignLords == [ClassicalSignLords EXCEPT ![0] = ""]

exhaltationSign_of_planet ==
  [n \in PlanetNames |->
     CASE n = "Sun" -> 0 [] n = "Moon" -> 1 [] n = "Mars" -> 9
       [] n = "Mercury" -> 5 [] n = "Jupiter" -> 3 [] n = "Venus" -> 11
       [] n = "Saturn" -> 6 [] n = "Rahu" -> 1 [] n = "Ketu" -> 7]

debilitationSign_of_planet ==
  [n \in PlanetNames |-> (exhaltationSign_of_planet[n] + 6) % 12]

\* The friends / enemies / nuetral lists each body record of the template carries.
friends_of ==
  [n \in PlanetNames |->
     CASE n = "Sun" -> {"Moon", "Mars", "Jupiter"}
       [] n = "Moon" -> {"Sun", "Mercury"}
       [] n = "Mars" -> {"Sun", "Moon", "Jupiter"}
       [] n = "Mercury" -> {"Sun", "Venus"}
       [] n = "Jupiter" -> {"Sun", "Moon", "Mars"}
       [] n = "Venus" -> {"Mercury", "Saturn"}
       [] n = "Saturn" -> {"Mercury", "Venus"}
       [] n = "Rahu" -> {"Venus", "Saturn"}
       [] n = "Ketu" -> {"Mars", "Venus", "Saturn"}]

enemies_of ==
  [n \in PlanetNames |->
     CASE n = "Sun" -> {"Venus", "Saturn"}
       [] n = "Moon" -> {}
       [] n = "Mars" -> {"Mercury"}
       [] n = "Mercury" -> {"Moon"}
       [] n = "Jupiter" -> {"Mercury", "Venus"}
       [] n = "Venus" -> {"Sun", "Moon"}
       [] n = "Saturn" -> {"Sun", "Moon", "Mars"}
       [] n = "Rahu" -> {"Sun", "Moon", "Mars"}
       [] n = "Ketu" -> {"Sun", "Moon"}]

nuetral_of ==
  [n \in PlanetNames |->
     (PlanetNames \ {n, "Rahu", "Ketu"}) \ (friends_of[n] \cup enemies_of[n])]

\* gen.signnum: the 1-based number of a sign.
signnum(sign) == sign + 1

\* gen.housediff: the house, counted from the lagna sign, a sign falls in.
housediff(lagna_num, sign_num) == ((sign_num - lagna_num) % 12) + 1

\* ------------------------------------------------------------- inputs
\* Birth details handed to compute_lagna_Chart: valid ones and ones whose month or
\* latitude is out of range.  Coordinates are whole degrees, timezone whole hours.
BirthInputs == [month : {7, 13}, lat : {13, 91}, lon : {78}, timezone : {5}]

ValidInput(b) ==
  /\ b.month \in 1..12
  /\ b.lat >= -90 /\ b.lat <= 90
  /\ b.lon >= -180 /\ b.lon <= 180

\* What the ephemeris has not been asked yet.
NotQueried == [long |-> NoValue, speed |-> 0]

\* The sidereal positions the external ephemeris may report: the longitude in grid
\* units (each one a float) and the sign of the angular speed.
EphemerisSamples(body) ==
  CASE body = "ASC" ->
         { [long |-> 0, speed |-> 0], [long |-> 100 * Scale, speed |-> 0],
           [long |-> Circle - 2, speed |-> 0] }
    [] body = "SUN" -> { [long |-> 10 * Scale, speed |-> 1], [long |-> 130 * Scale + 1, speed |-> 1] }
    [] body = "MOON" -> { [long |-> 33 * Scale + 1, speed |-> 1] }
    [] body = "MARS" -> { [long |-> 280 * Scale, speed |-> -1], [long |-> 0, speed |-> 1] }
    [] body = "MERCURY" -> { [long |-> 165 * Scale, speed |-> -1] }
    [] body = "JUPITER" -> { [long |-> 95 * Scale, speed |-> 1] }
    [] body = "VENUS" -> { [long |-> 200 * Scale + 2, speed |-> 1] }
    [] body = "SATURN" -> { [long |-> 300 * Scale, speed |-> -1], [long |-> 13 * Scale + 1, speed |-> 1] }
    [] body = "MEAN_NODE" ->
         { [long |-> 0, speed |-> -1], [long |-> 45 * Scale, speed |-> -1],
           [long |-> HalfCircle - 1, speed |-> -1], [long |-> HalfCircle, speed |-> -1],
           [long |-> Circle - 2, speed |-> 1] }
    [] body = "KETU" -> { [long |-> 250 * Scale, speed |-> 1] }

SkyBodies == {"ASC"} \cup { planet_list[i] : i \in 1..Len(planet_list) }

VARIABLES
  sid_mode,      \* the global sidereal mode of the swisseph library
  mode_before,   \* the mode in force when the latest adapter operation was entered
  bday,          \* the BirthDetails argument
  signlords,     \* gen.signlords, the reference table in use
  sky,           \* what the ephemeris answered so far for this instant and place
  queries,       \* the ephemeris calls issued by the current compute_lagna_Chart call
  runs,          \* number of compute_lagna_Chart calls started on the chart template
  pc,            \* position inside compute_lagna_Chart
  raised,        \* the call that raised, when pc = "failed"
  birthday_julien,
  birth_place,
  lagna,
  idx,           \* loop index of the two loops over the bodies
  ascendant,     \* charts_template.D1.ascendant
  planets,       \* charts_template.D1.planets
  tpc,           \* concurrent callers: position inside the adapter operation
  top,           \* concurrent callers: the adapter operation being run
  tcalls,        \* concurrent callers: operations started
  tlog,          \* concurrent callers: the ephemeris queries executed
  arg,           \* argument a pure function is applied to
  ret            \* its result

vars ==
  <<sid_mode, mode_before, bday, signlords, sky, queries, runs, pc, raised,
    birthday_julien, birth_place, lagna, idx, ascendant, planets,
    tpc, top, tcalls, tlog, arg, ret>>

chartVars ==
  <<bday, signlords, sky, queries, runs, pc, raised, birthday_julien, birth_place,
    lagna, idx, ascendant, planets, mode_before>>
concVars == <<tpc, top, tcalls, tlog>>
pureVars == <<arg, ret>>

\* ------------------------------------------------------------- the swisseph mode
\* set_ayanamsa_mode = lambda: swe.set_sid_mode(swe.SIDM_LAHIRI)
set_ayanamsa_mode == SIDM_LAHIRI
\* reset_ayanamsa_mode = lambda: swe.set_sid_mode(swe.SIDM_FAGAN_BRADLEY)
reset_ayanamsa_mode == SIDM_FAGAN_BRADLEY

\* ------------------------------------------------------------- records
Place(a, b, c) == [latitude |-> a, longitude |-> b, timezone |-> c]
NoPlace == Place(0, 0, 0)

\* swe.julday(year, month, day, hour): the instant, kept symbolic.
julday(b) == [month |-> b.month, shift |-> 0]
NoInstant == [month |-> 0, shift |-> 0]
\* jd - tz / 24.
shifted(jd, tz) == [jd EXCEPT !.shift = tz]

Query(fn, body, at, lat, lon, mode) ==
  [fn |-> fn, body |-> body, at |-> at, lat |-> lat, lon |-> lon, mode |-> mode]

AscendantTemplate ==
  [status |-> UNSET, pos |-> <<0, 0, 0>>, dec_deg |-> NoValue,
   nakshatra |-> NoValue, pada |-> NoValue, sign |-> NoValue, rashi |-> NoValue,
   lagna_lord |-> "", lagnesh_sign |-> NoValue, lagnesh_rashi |-> NoValue,
   lagnesh_disp |-> "-"]

PlanetTemplate(n) ==
  [name |-> n, status |-> UNSET, retro |-> FALSE, pos |-> <<0, 0, 0>>,
   dec_deg |-> NoValue, nakshatra |-> NoValue, pada |-> NoValue, sign |-> NoValue,
   rashi |-> NoValue, dispositor |-> "-", house_rel |-> "", house_num |-> NoValue,
   friends |-> friends_of[n], enemies |-> enemies_of[n], nuetral |-> nuetral_of[n]]

\* What the ephemeris answers for a body: the answer it gave before, else any sample.
Answers(body) ==
  IF sky[body] = NotQueried THEN EphemerisSamples(body) ELSE {sky[body]}

\* ------------------------------------------------------------- statement order
\* Variant: update_planetaryData called after the house loop.
StageAfter_planets_last(stage) ==
  CASE stage = "julday" -> "update_ascendant"
    [] stage = "update_ascendant" -> "miscdata"
    [] stage = "miscdata" -> "lagnesh"
    [] stage = "lagnesh" -> "housenum"
    [] stage = "housenum" -> "update_planetaryData"
    [] stage = "update_planetaryData" -> "finish"
    [] stage = "finish" -> "done"
\* The order of the statements of compute_lagna_Chart (lines 276-328): what follows
\* each stage when it did not raise.
StageAfter(stage) ==
  CASE stage = "julday" -> "update_ascendant"
    [] stage = "update_ascendant" -> "update_planetaryData"
    [] stage = "update_planetaryData" -> "miscdata"
    [] stage = "miscdata" -> "lagnesh"
    [] stage = "lagnesh" -> "housenum"
    [] stage = "housenum" -> "finish"
    [] stage = "finish" -> "done"

\* ------------------------------------------------------------- update_ascendant
\* The ascendant record after update_ascendant assigned it (lines 152-176).
AscendantRecord(lagna_ascendant, nirayana_lagna) ==
  LET constellation == SignIndex(nirayana_lagna)
      coordinates == to_dms(nirayana_lagna % SignWidth)
      nak_pad == nakshatra_pada(nirayana_lagna)
  IN [lagna_ascendant EXCEPT
        !.pos = coordinates,
        !.dec_deg = nirayana_lagna % SignWidth,
        !.nakshatra = nak_pad[1],
        !.pada = nak_pad[2],
        !.sign = constellation,
        !.rashi = constellation,
        !.lagna_lord = signlords[constellation],
        !.status = PARTIAL]

\* lat, lon, tz = place
UnpackLat(place) == place.latitude
UnpackLon(place) == place.longitude
UnpackTz(place) == place.timezone

\* update_ascendant(jd, place, lagna_ascendant): the houses query under the Lahiri
\* mode, then the assignments; the query may raise, and then nothing is reset.
update_ascendant ==
  /\ pc = "update_ascendant"
  /\ LET lat == UnpackLat(birth_place)
         lon == UnpackLon(birth_place)
         jd_utc == shifted(birthday_julien, UnpackTz(birth_place))
         q == Query("houses_ex", "ASC", jd_utc, lat, lon, set_ayanamsa_mode)
     IN /\ mode_before' = sid_mode
        /\ queries' = queries \cup {q}
        /\ \/ \E a \in Answers("ASC") :
                /\ sky' = [sky EXCEPT !["ASC"] = a]
                /\ sid_mode' = reset_ayanamsa_mode
                /\ ascendant' = AscendantRecord(ascendant, a.long)
                /\ lagna' = 1 + SignIndex(a.long)
                /\ pc' = StageAfter("update_ascendant")
                /\ idx' = 1
                /\ UNCHANGED raised
           \/ /\ sid_mode' = set_ayanamsa_mode
              /\ pc' = "failed"
              /\ raised' = "houses_ex"
              /\ UNCHANGED <<sky, ascendant, lagna, idx>>
  /\ UNCHANGED <<bday, signlords, runs, birthday_julien, birth_place, planets>>
  /\ UNCHANGED <<concVars, pureVars>>

\* ------------------------------------------------------------- update_planetaryData
\* The body the ephemeris is asked about for an entry of planet_list.
QueriedBody(planet) == IF planet # "KETU" THEN planet ELSE "MEAN_NODE"

\* nirayana_long of the loop body, from the ephemeris answer (lines 190-196).
NirayanaLong(planet, answer) ==
  IF planet # "KETU" THEN norm360(answer.long) ELSE ketu(norm360(answer.long))

\* retro of the loop body; Is_Retrograde returns longi[3] < 0.
Retro(planet, answer) ==
  IF planet # "KETU" THEN answer.speed < 0 ELSE TRUE

\* The body record after one iteration of the loop (lines 200-252).
PlanetRecord(db_planet, nirayana_long, retro) ==
  LET constellation == SignIndex(nirayana_long)
      coordinates == to_dms(nirayana_long % SignWidth)
      nak_pad == nakshatra_pada(nirayana_long)
      currentsign == constellation
      dispositor == signlords[constellation]
  IN [db_planet EXCEPT
        !.retro = retro,
        !.pos = coordinates,
        !.dec_deg = nirayana_long % SignWidth,
        !.nakshatra = nak_pad[1],
        !.pada = nak_pad[2],
        !.sign = currentsign,
        !.rashi = constellation,
        !.dispositor = dispositor,
        !.house_rel =
           HouseRel(db_planet.name, currentsign, dispositor,
                    exhaltationSign_of_planet[db_planet.name],
                    debilitationSign_of_planet[db_planet.name],
                    db_planet.friends, db_planet.enemies, db_planet.nuetral),
        !.status = PARTIAL]

\* One iteration of the loop over planet_list in update_planetaryData.
update_planetaryData ==
  /\ pc = "update_planetaryData"
  /\ LET planet == planet_list[idx]
         body == QueriedBody(planet)
         jd_ut == shifted(birthday_julien, birth_place.timezone)
         q1 == Query("calc_ut", body, jd_ut, 0, 0, set_ayanamsa_mode)
         q2 == Query("calc_ut_speed", body, jd_ut, 0, 0, set_ayanamsa_mode)
     IN \/ \* sidereal_longitude: swe.calc_ut raises
           /\ queries' = queries \cup {q1}
           /\ mode_before' = sid_mode
           /\ sid_mode' = set_ayanamsa_mode
           /\ pc' = "failed"
           /\ raised' = "calc_ut"
           /\ UNCHANGED <<sky, planets, idx>>
        \/ \* Is_Retrograde: swe.calc_ut raises
           /\ planet # "KETU"
           /\ queries' = queries \cup {q1, q2}
           /\ mode_before' = reset_ayanamsa_mode
           /\ sid_mode' = set_ayanamsa_mode
           /\ pc' = "failed"
           /\ raised' = "calc_ut_speed"
           /\ \E a \in Answers(body) : sky' = [sky EXCEPT ![body] = a]
           /\ UNCHANGED <<planets, idx>>
        \/ \E a \in Answers(body) :
             /\ sky' = [sky EXCEPT ![body] = a]
             /\ queries' = queries \cup (IF planet # "KETU" THEN {q1, q2} ELSE {q1})
             /\ mode_before' = IF planet # "KETU" THEN reset_ayanamsa_mode ELSE sid_mode
             /\ sid_mode' = reset_ayanamsa_mode
             /\ planets' =
                  [planets EXCEPT ![get_planet_name(planet)] =
                     PlanetRecord(@, NirayanaLong(planet, a), Retro(planet, a))]
             /\ IF idx < Len(planet_list)
                  THEN idx' = idx + 1 /\ pc' = pc
                  ELSE idx' = 1 /\ pc' = StageAfter("update_planetaryData")
             /\ UNCHANGED raised
  /\ UNCHANGED <<bday, signlords, runs, birthday_julien, birth_place, lagna, ascendant>>
  /\ UNCHANGED <<concVars, pureVars>>

\* ------------------------------------------------------------- compute_lagna_Chart
\* A caller invokes compute_lagna_Chart(bday, charts_template): the first call gets the
\* fresh template, a later one the template the earlier call left behind.
Call ==
  /\ pc \in {"idle", "done", "failed"}
  /\ runs < MaxRuns
  /\ runs' = runs + 1
  /\ pc' = "julday"
  /\ raised' = ""
  /\ queries' = {}
  /\ birthday_julien' = NoInstant
  /\ birth_place' = NoPlace
  /\ lagna' = NoValue
  /\ idx' = 1
  /\ UNCHANGED <<sid_mode, mode_before, bday, signlords, sky, ascendant, planets>>
  /\ UNCHANGED <<concVars, pureVars>>

\* Lines 275-285: the Julian day of the birth instant and the Place record, built
\* positionally from (lon, lat, timezone).
ComputeJulianDay ==
  /\ pc = "julday"
  /\ birthday_julien' = julday(bday)
  /\ queries' = queries \cup {Query("julday", "", NoInstant, 0, 0, sid_mode)}
  /\ birth_place' = Place(bday.lon, bday.lat, bday.timezone)
  /\ pc' = StageAfter("julday")
  /\ UNCHANGED <<sid_mode, mode_before, bday, signlords, sky, runs, raised, lagna, idx,
                 ascendant, planets>>
  /\ UNCHANGED <<concVars, pureVars>>

\* Lines 289-293: gen.update_miscdata and gen.compute_BenMalNeu4lagna write the user
\* details and the classifications; either may raise.
UpdateMiscData ==
  /\ pc = "miscdata"
  /\ \/ pc' = StageAfter("miscdata") /\ UNCHANGED raised
     \/ pc' = "failed" /\ raised' = "gen"
  /\ UNCHANGED <<sid_mode, mode_before, bday, signlords, sky, queries, runs,
                 birthday_julien, birth_place, lagna, idx, ascendant, planets>>
  /\ UNCHANGED <<concVars, pureVars>>

\* Whether D1.planets[lagnesh] finds the lagna lord (else KeyError at line 298).
LagneshFound(asc, pl) == asc.lagna_lord \in DOMAIN pl

\* Variant: the status assigned before the lookup of the lagna lord.
AscendantAfterLagnesh_status_first(asc, pl) ==
  IF LagneshFound(asc, pl)
    THEN [asc EXCEPT !.lagnesh_sign = pl[asc.lagna_lord].sign,
                     !.lagnesh_rashi = pl[asc.lagna_lord].rashi,
                     !.lagnesh_disp = pl[asc.lagna_lord].dispositor,
                     !.status = COMPUTED]
    ELSE [asc EXCEPT !.status = COMPUTED]
\* Lines 296-302: the ascendant record after the lagnesh fields were copied and the
\* status set; a lookup that raises leaves the record as it was.
AscendantAfterLagnesh(asc, pl) ==
  IF LagneshFound(asc, pl)
    THEN [asc EXCEPT !.lagnesh_sign = pl[asc.lagna_lord].sign,
                     !.lagnesh_rashi = pl[asc.lagna_lord].rashi,
                     !.lagnesh_disp = pl[asc.lagna_lord].dispositor,
                     !.status = COMPUTED]
    ELSE asc

ComputeLagnesh ==
  /\ pc = "lagnesh"
  /\ ascendant' = AscendantAfterLagnesh(ascendant, planets)
  /\ IF LagneshFound(ascendant, planets)
       THEN pc' = StageAfter("lagnesh") /\ idx' = 1 /\ UNCHANGED raised
       ELSE pc' = "failed" /\ raised' = "lagnesh" /\ UNCHANGED idx
  /\ UNCHANGED <<sid_mode, mode_before, bday, signlords, sky, queries, runs,
                 birthday_julien, birth_place, lagna, planets>>
  /\ UNCHANGED <<concVars, pureVars>>

\* Variant: the house number assigned, the status left alone.
PlanetAfterHouse_no_status(planet, lagna_num) ==
  [planet EXCEPT !.house_num = housediff(lagna_num, signnum(planet.sign))]
\* Lines 306-309: one body after its house number and status were assigned.
PlanetAfterHouse(planet, lagna_num) ==
  [planet EXCEPT !.house_num = housediff(lagna_num, signnum(planet.sign)),
                 !.status = COMPUTED]

\* One iteration of the loop "for planetname in D1.planets" (lines 305-309).
ComputeHouseNum ==
  /\ pc = "housenum"
  /\ planets' =
       [planets EXCEPT ![get_planet_name(planet_list[idx])] = PlanetAfterHouse(@, lagna)]
  /\ IF idx < Len(planet_list)
       THEN idx' = idx + 1 /\ pc' = pc
       ELSE idx' = 1 /\ pc' = StageAfter("housenum")
  /\ UNCHANGED <<sid_mode, mode_before, bday, signlords, sky, queries, runs, raised,
                 birthday_julien, birth_place, lagna, ascendant>>
  /\ UNCHANGED <<concVars, pureVars>>

\* Lines 311-328: gen.update_houses, the aspects, conjunctions and the classification
\* buckets (none touches a status); any of them may raise, else the call returns.
Finish ==
  /\ pc = "finish"
  /\ \/ pc' = StageAfter("finish") /\ UNCHANGED raised
     \/ pc' = "failed" /\ raised' = "gen"
  /\ UNCHANGED <<sid_mode, mode_before, bday, signlords, sky, queries, runs,
                 birthday_julien, birth_place, lagna, idx, ascendant, planets>>
  /\ UNCHANGED <<concVars, pureVars>>

\* ------------------------------------------------------------- specification
ChartIdle ==
  /\ sky = [b \in SkyBodies |-> NotQueried]
  /\ queries = {}
  /\ runs = 0
  /\ pc = "idle"
  /\ raised = ""
  /\ birthday_julien = NoInstant
  /\ birth_place = NoPlace
  /\ lagna = NoValue
  /\ idx = 1
  /\ ascendant = AscendantTemplate
  /\ planets = [n \in PlanetNames |-> PlanetTemplate(n)]

ConcIdle ==
  /\ tpc = [t \in {1, 2} |-> "idle"]
  /\ top = [t \in {1, 2} |-> ""]
  /\ tcalls = [t \in {1, 2} |-> 0]
  /\ tlog = {}

PureIdle ==
  /\ arg = <<>>
  /\ ret = <<>>

\* The library starts in its default mode, Fagan-Bradley.
Init ==
  /\ sid_mode = SIDM_FAGAN_BRADLEY
  /\ mode_before = SIDM_FAGAN_BRADLEY
  /\ bday \in BirthInputs
  /\ signlords \in {ClassicalSignLords, IncompleteSignLords}
  /\ ChartIdle
  /\ ConcIdle
  /\ PureIdle

Next ==
  \/ Call
  \/ ComputeJulianDay
  \/ update_ascendant
  \/ update_planetaryData
  \/ UpdateMiscData
  \/ ComputeLagnesh
  \/ ComputeHouseNum
  \/ Finish

Spec == Init /\ [][Next]_vars

\* ------------------------------------------------------------- concurrent callers
\* Two callers run adapter operations at the same time.  Each operation is the
\* statement sequence of the source: set_ayanamsa_mode(); the swe query;
\* reset_ayanamsa_mode().  Nothing in the module orders the callers, so the
\* statements interleave freely.
Threads == {1, 2}
AdapterOps == {"sidereal_longitude", "Is_Retrograde", "update_ascendant"}

ThreadStart(t) ==
  /\ tpc[t] = "idle"
  /\ tcalls[t] < MaxCalls
  /\ \E op \in AdapterOps : top' = [top EXCEPT ![t] = op]
  /\ tcalls' = [tcalls EXCEPT ![t] = @ + 1]
  /\ tpc' = [tpc EXCEPT ![t] = "set"]
  /\ UNCHANGED <<sid_mode, tlog, chartVars, pureVars>>

\* Lines 124, 131, 147.
ThreadSetMode(t) ==
  /\ tpc[t] = "set"
  /\ sid_mode' = set_ayanamsa_mode
  /\ tpc' = [tpc EXCEPT ![t] = "query"]
  /\ UNCHANGED <<top, tcalls, tlog, chartVars, pureVars>>

\* Lines 125, 132, 149: the query runs under whatever the global mode is now; when it
\* raises the operation is left without the reset.
ThreadQuery(t) ==
  /\ tpc[t] = "query"
  /\ tlog' = tlog \cup {[thread |-> t, op |-> top[t], call |-> tcalls[t], mode |-> sid_mode]}
  /\ \/ tpc' = [tpc EXCEPT ![t] = "reset"]
     \/ tpc' = [tpc EXCEPT ![t] = "idle"]
  /\ UNCHANGED <<sid_mode, top, tcalls, chartVars, pureVars>>

\* Lines 126, 133, 154.
ThreadResetMode(t) ==
  /\ tpc[t] = "reset"
  /\ sid_mode' = reset_ayanamsa_mode
  /\ tpc' = [tpc EXCEPT ![t] = "idle"]
  /\ UNCHANGED <<top, tcalls, tlog, chartVars, pureVars>>

InitConc ==
  /\ sid_mode = SIDM_FAGAN_BRADLEY
  /\ mode_before = SIDM_FAGAN_BRADLEY
  /\ bday \in {b \in BirthInputs : ValidInput(b)}
  /\ signlords = ClassicalSignLords
  /\ ChartIdle
  /\ ConcIdle
  /\ PureIdle

NextConc ==
  \E t \in Threads :
    \/ ThreadStart(t)
    \/ ThreadSetMode(t)
    \/ ThreadQuery(t)
    \/ ThreadResetMode(t)

SpecConc == InitConc /\ [][NextConc]_vars

\* ------------------------------------------------------------- pure functions
PureBase ==
  /\ sid_mode = SIDM_FAGAN_BRADLEY
  /\ mode_before = SIDM_FAGAN_BRADLEY
  /\ bday \in {b \in BirthInputs : ValidInput(b)}
  /\ signlords = ClassicalSignLords
  /\ ChartIdle
  /\ ConcIdle
  /\ ret = <<>>

\* nakshatra_pada on every multiple of 1/8 degree in [0, 360).
NakInputs == { l \in 0..(Circle - 1) : l % (Scale \div 8) = 0 }

InitNak ==
  /\ PureBase
  /\ arg \in { <<l>> : l \in NakInputs }

CallNakshatraPada ==
  /\ Len(arg) = 1
  /\ Len(ret) = 0
  /\ ret' = nakshatra_pada(arg[1])
  /\ UNCHANGED <<arg, sid_mode, chartVars, concVars>>

SpecNak == InitNak /\ [][CallNakshatraPada]_vars

\* The dignity decision list on every combination of a small universe of inputs.
DignitySigns == 0..2
DignityLords == {"Sun", "Moon", "Mars"}
DignityInputs ==
  [name : {"Sun", "Mars"}, currentsign : DignitySigns, dispositor : DignityLords,
   exhaltsign : DignitySigns, debilitsign : DignitySigns,
   friends : SUBSET {"Moon", "Mars"}, enemies : SUBSET {"Moon", "Mars"},
   neutral : SUBSET {"Moon", "Mars"}]

InitDignity ==
  /\ PureBase
  /\ arg \in { <<d>> : d \in DignityInputs }

CallHouseRel ==
  /\ Len(arg) = 1
  /\ Len(ret) = 0
  /\ ret' = <<HouseRel(arg[1].name, arg[1].currentsign, arg[1].dispositor,
                       arg[1].exhaltsign, arg[1].debilitsign,
                       arg[1].friends, arg[1].enemies, arg[1].neutral)>>
  /\ UNCHANGED <<arg, sid_mode, chartVars, concVars>>

SpecDignity == InitDignity /\ [][CallHouseRel]_vars

\* ------------------------------------------------------------- claims
\* C1: the dignity written by update_planetaryData is the outcome of the first rule
\* of the ordered list exalted, debilitated, own sign, friend, enemy, neutral that
\* matches, UNKNOWN when none does; a body in its exaltation sign whose dispositor is a
\* friend is EXHALTED.
C1_FirstMatchWins ==
  Len(ret) = 1 =>
    LET a == arg[1]
        r == ret[1]
        r1 == a.currentsign = a.exhaltsign
        r2 == a.currentsign = a.debilitsign
        r3 == a.name = a.dispositor
        r4 == a.dispositor \in a.friends
        r5 == a.dispositor \in a.enemies
        r6 == a.dispositor \in a.neutral
    IN /\ r1 => r = EXHALTED
       /\ (~r1 /\ r2) => r = DEBILITATED
       /\ (~r1 /\ ~r2 /\ r3) => r = OWNSIGN
       /\ (~r1 /\ ~r2 /\ ~r3 /\ r4) => r = FRIENDSIGN
       /\ (~r1 /\ ~r2 /\ ~r3 /\ ~r4 /\ r5) => r = ENEMYSIGN
       /\ (~r1 /\ ~r2 /\ ~r3 /\ ~r4 /\ ~r5 /\ r6) => r = NEUTRALSIGN
       /\ (~r1 /\ ~r2 /\ ~r3 /\ ~r4 /\ ~r5 /\ ~r6) => r = UNKNOWN

C1_Witness ==
  /\ Len(ret) = 1
  /\ arg[1].currentsign = arg[1].exhaltsign
  /\ arg[1].dispositor \in arg[1].friends
  /\ ret[1] = EXHALTED

\* C2: after every adapter operation, on every exit path, the global sidereal mode is
\* the mode that was in force when the operation was entered.
C2_ModeRestored == sid_mode = mode_before

\* C3: with concurrent callers, every ephemeris query executes while the global mode
\* is the Lahiri frame.
C3_QueryUnderLahiri == \A e \in tlog : e.mode = SIDM_LAHIRI

\* C4 as stated: in every behaviour made of calls on a chart structure, no step changes
\* the status of the ascendant or of a body from COMPUTED back to PARTIAL, and only
\* PARTIAL and COMPUTED are ever written.
C4_StatusOneWay ==
  [][ /\ ascendant.status = COMPUTED => ascendant'.status = COMPUTED
      /\ ascendant'.status # ascendant.status => ascendant'.status \in {PARTIAL, COMPUTED}
      /\ \A n \in PlanetNames :
           /\ planets[n].status = COMPUTED => planets'[n].status = COMPUTED
           /\ planets'[n].status # planets[n].status
                => planets'[n].status \in {PARTIAL, COMPUTED} ]_vars

\* C4 amended: during the first call of compute_lagna_Chart on a fresh chart template
\* no step changes a status from COMPUTED back to PARTIAL; and in every call only
\* PARTIAL and COMPUTED are written.
C4_StatusOneWayFirstCall ==
  [][ /\ runs' = 1 =>
           /\ ascendant.status = COMPUTED => ascendant'.status = COMPUTED
           /\ \A n \in PlanetNames :
                planets[n].status = COMPUTED => planets'[n].status = COMPUTED
      /\ ascendant'.status # ascendant.status => ascendant'.status \in {PARTIAL, COMPUTED}
      /\ \A n \in PlanetNames :
           planets'[n].status # planets[n].status
             => planets'[n].status \in {PARTIAL, COMPUTED} ]_vars

C4_Witness ==
  /\ runs = 1
  /\ pc = "finish"
  /\ ascendant.status = COMPUTED
  /\ \A n \in PlanetNames : planets[n].status = COMPUTED

\* C5: when compute_lagna_Chart has returned normally, the ascendant and each of the
\* nine bodies of the chart have status COMPUTED.
C5_ChartComplete ==
  pc = "done" =>
    /\ ascendant.status = COMPUTED
    /\ Cardinality(DOMAIN planets) = Len(planet_list)
    /\ \A n \in DOMAIN planets : planets[n].status = COMPUTED

C5_Witness == pc = "done" /\ runs = 1

\* C6: with out-of-range birth details compute_lagna_Chart issues no ephemeris query
\* (Julian-day conversion, houses query, planet position query).
C6_NoQueryOnInvalidInput == ~ValidInput(bday) => queries = {}

\* C7: Ketu is never the body of an ephemeris query; its longitude is the longitude the
\* ephemeris gave for the mean node at the same instant plus 180 degrees, normalised to
\* [0, 360); its retrograde flag is true whatever the speed; its sign is the sixth
\* from Rahu's.
KetuWritten ==
  \/ pc \in {"miscdata", "lagnesh", "housenum", "finish", "done"}
  \/ pc = "failed" /\ raised \in {"gen", "lagnesh"}

C7_KetuDerived ==
  /\ \A q \in queries : q.body # "KETU"
  /\ KetuWritten =>
       LET k == planets["Ketu"]
           r == planets["Rahu"]
           rahu == sky["MEAN_NODE"].long
           opposite == IF rahu < HalfCircle THEN rahu + HalfCircle ELSE rahu - HalfCircle
       IN /\ Query("calc_ut", "MEAN_NODE", shifted(julday(bday), bday.timezone), 0, 0,
                   SIDM_LAHIRI) \in queries
          /\ k.sign * SignWidth + k.dec_deg = opposite
          /\ opposite \in 0..(Circle - 1)
          /\ k.retro = TRUE
          /\ (k.sign - r.sign) % 12 = 6

\* C8: for every longitude in [0, 360) the nakshatra index is the floor of
\* longitude / (360/27) and lies in 0..26, the pada is 1 + the floor of the remainder
\* over 360/108 and lies in 1..4, and a longitude on the boundary k * 13d20' resolves
\* to nakshatra k, pada 1.
C8_NakshatraPada ==
  Len(ret) = 2 =>
    LET l == arg[1]
        q == ret[1]
        p == ret[2]
    IN /\ q \in 0..26
       /\ p \in 1..4
       /\ q * Circle <= 27 * l /\ 27 * l < (q + 1) * Circle
       /\ (p - 1) * Circle <= 108 * l - 4 * q * Circle
       /\ 108 * l - 4 * q * Circle < p * Circle
       /\ \A k \in 0..26 : 27 * l = k * Circle => (q = k /\ p = 1)

\* C9: in every state of compute_lagna_Chart, failures included: an ascendant with
\* status COMPUTED holds the sign, rashi and dispositor of the lagna lord's record; a
\* body with status COMPUTED has its house number; after a failed lagna-lord lookup the
\* ascendant is PARTIAL.
C9_ComputedOnlyAfterDerived ==
  /\ ascendant.status = COMPUTED =>
       /\ ascendant.lagna_lord \in DOMAIN planets
       /\ ascendant.lagnesh_sign = planets[ascendant.lagna_lord].sign
       /\ ascendant.lagnesh_rashi = planets[ascendant.lagna_lord].rashi
       /\ ascendant.lagnesh_disp = planets[ascendant.lagna_lord].dispositor
       /\ ascendant.lagnesh_sign \in 0..11
  /\ \A n \in PlanetNames :
       planets[n].status = COMPUTED => planets[n].house_num \in 1..12
  /\ (pc = "failed" /\ raised = "lagnesh") => ascendant.status = PARTIAL

C9_Witness ==
  /\ pc = "failed"
  /\ raised = "lagnesh"
  /\ ascendant.status = PARTIAL
  /\ planets["Ketu"].status = PARTIAL

\* C10: the houses query of update_ascendant receives the latitude of the birth place
\* as latitude and its longitude as longitude.
C10_LatLonNotSwapped ==
  \A q \in queries : q.fn = "houses_ex" => (q.lat = bday.lat /\ q.lon = bday.lon)

====
